---- MODULE Spec2Model ----
(***************************************************************************)
(* Model of MultiPropInequality (src/mip.py): a wrapper around a backend   *)
(* query that pushes filter expressions down to the backend as long as     *)
(* they keep inequality comparisons on one property, keeps the others as   *)
(* post filters, and applies the post filters to the records the backend   *)
(* streams back.                                                           *)
(*                                                                         *)
(* Representation.  A filter node is a record                              *)
(*   [type, name, symbol, value, children];                                *)
(* type is the Python class of the node.  A record of the backend is a     *)
(* function from property names to integers, Null standing for None.       *)
(* All properties of the model are integer properties, so the date/time    *)
(* conversion of _make_evaluator (lines 188-195) never applies.  An        *)
(* ordering comparison (<, <=, >, >=) against None raises TypeError, the   *)
(* failure that __iter__ catches (lines 252-253); == and != against None   *)
(* do not raise.                                                           *)
(***************************************************************************)
EXTENDS Integers, Sequences, FiniteSets, TLC

VARIABLES
    query,              \* self.query: the filter nodes attached to the backend query
    first_inequality,   \* self.first_inequality: a filter dict, or NoneDict
    post_inq_filters,   \* self.post_inq_filters: the deferred nodes, in order
    call,               \* the last filter() call: its arguments and how it ended
    submitted,          \* number of arguments handed to filter() so far
    iters,              \* the generators made by __iter__
    job                 \* a node and a record drawn for one run of filter() or of the evaluator

vars == <<query, first_inequality, post_inq_filters, call, submitted, iters, job>>

----------------------------------------------------------------------------
(* Bounds *)

MaxSubmitted == 3
MaxArgs == 2
MaxNodes == 4

----------------------------------------------------------------------------
(* Data *)

Null == -1

Props == {"department", "salary", "age"}

FilterNode(name, symbol, value) ==
    [type |-> "FilterNode", name |-> name, symbol |-> symbol, value |-> value,
     children |-> <<>>]

ConjunctionNode(children) ==
    [type |-> "ConjunctionNode", name |-> "", symbol |-> "", value |-> 0,
     children |-> children]

DisjunctionNode(children) ==
    [type |-> "DisjunctionNode", name |-> "", symbol |-> "", value |-> 0,
     children |-> children]

\* an argument of filter() that is not an ndb.query.Node (a plain string)
NonNode ==
    [type |-> "str", name |-> "", symbol |-> "", value |-> 0, children |-> <<>>]

IsNode(arg) == arg.type \in {"FilterNode", "ConjunctionNode", "DisjunctionNode"}

\* self.first_inequality = None
NoneDict == [name |-> "None", symbol |-> "None", value |-> 0]

----------------------------------------------------------------------------
(* _node_to_dict, _get_inequalities, _get_first_inequality *)

node_to_dict(f_node) ==
    [name |-> f_node.name, symbol |-> f_node.symbol, value |-> f_node.value]

RECURSIVE get_inequalities(_)
RECURSIVE get_inequalities_each(_)

\* mutant: the subnodes of a conjunction or disjunction are not searched
get_inequalities_flat(f_node) ==
    IF f_node.type = "FilterNode" /\ node_to_dict(f_node).symbol # "="
    THEN <<node_to_dict(f_node)>> ELSE <<>>

\* mutant: the symbol of a FilterNode is not looked at
get_inequalities_any(f_node) ==
    IF f_node.type \in {"DisjunctionNode", "ConjunctionNode"}
    THEN get_inequalities_each(f_node.children)
    ELSE IF f_node.type = "FilterNode" THEN <<node_to_dict(f_node)>>
    ELSE <<>>

get_inequalities_each(nodes) ==
    IF nodes = <<>> THEN <<>>
    ELSE get_inequalities(Head(nodes)) \o get_inequalities_each(Tail(nodes))

get_inequalities(f_node) ==
    IF f_node.type \in {"DisjunctionNode", "ConjunctionNode"}
    THEN get_inequalities_each(f_node.children)
    ELSE IF f_node.type = "FilterNode"
    THEN IF node_to_dict(f_node).symbol # "=" THEN <<node_to_dict(f_node)>> ELSE <<>>
    ELSE <<>>

\* query.filters is the conjunction of the nodes attached to the query
get_first_inequality(filters) ==
    LET inequalities == get_inequalities_each(filters)
    IN  IF Len(inequalities) = 0 THEN NoneDict ELSE inequalities[1]

----------------------------------------------------------------------------
(* _push_filter *)

RECURSIVE push_scan(_, _)

\* mutant: a conflicting inequality replaces the first inequality
push_scan_switch(inequalities, first) ==
    IF inequalities = <<>> THEN [first |-> first, push_to_post |-> FALSE]
    ELSE LET inq == Head(inequalities)
         IN  IF first = NoneDict THEN push_scan(Tail(inequalities), inq)
             ELSE IF first.name # inq.name
             THEN [first |-> inq, push_to_post |-> TRUE]
             ELSE push_scan(Tail(inequalities), first)

\* mutant: only the first inequality of the node is compared
push_scan_head(inequalities, first) ==
    IF inequalities = <<>> THEN [first |-> first, push_to_post |-> FALSE]
    ELSE LET inq == Head(inequalities)
         IN  IF first = NoneDict THEN [first |-> inq, push_to_post |-> FALSE]
             ELSE [first |-> first, push_to_post |-> first.name # inq.name]

\* the for loop of _push_filter: the first inequality after the scan, and
\* whether the loop left through the break
push_scan(inequalities, first) ==
    IF inequalities = <<>> THEN [first |-> first, push_to_post |-> FALSE]
    ELSE LET inq == Head(inequalities)
         IN  IF first = NoneDict THEN push_scan(Tail(inequalities), inq)
             ELSE IF first.name # inq.name
             THEN [first |-> first, push_to_post |-> TRUE]
             ELSE push_scan(Tail(inequalities), first)

\* the session fields after _push_filter(filter_node), with its return value
push_filter(s, filter_node) ==
    LET r == push_scan(get_inequalities(filter_node), s.first_inequality)
    IN  [query |-> s.query,
         first_inequality |-> r.first,
         post_inq_filters |-> IF r.push_to_post
                              THEN Append(s.post_inq_filters, filter_node)
                              ELSE s.post_inq_filters,
         returned |-> r.push_to_post]

----------------------------------------------------------------------------
(* filter *)

\* one turn of the loop of filter() on an argument that is a Node
route(s, arg) ==
    LET p == push_filter(s, arg)
    IN  [query |-> IF p.returned THEN p.query ELSE Append(p.query, arg),
         first_inequality |-> p.first_inequality,
         post_inq_filters |-> p.post_inq_filters,
         raised |-> FALSE,
         pushed |-> Append(s.pushed, p.returned)]

RECURSIVE filter_loop(_, _)

filter_loop(s, args) ==
    IF args = <<>> THEN s
    ELSE IF ~IsNode(Head(args)) THEN [s EXCEPT !.raised = TRUE]
    ELSE filter_loop(route(s, Head(args)), Tail(args))

\* mutant: every argument is type-checked before any is routed
filter_atomic(s, args) ==
    IF \E k \in DOMAIN args : ~IsNode(args[k])
    THEN [s EXCEPT !.raised = TRUE]
    ELSE filter_loop(s, args)

\* the session fields after filter(*args); raised: the call ended in TypeError;
\* pushed: what _push_filter returned for each argument it was given
filter(s, args) == filter_loop(s, args)

Session ==
    [query |-> query, first_inequality |-> first_inequality,
     post_inq_filters |-> post_inq_filters, raised |-> FALSE, pushed |-> <<>>]

----------------------------------------------------------------------------
(* _make_evaluator, _make_and_evaluator, _make_or_evaluator, _check_node *)

\* the closure of make_closure applied to record x: "T", "F", or "TypeError"
\* when an ordering operator meets None
evaluator(f_d, x) ==
    LET v == x[f_d.name]
        b(cond) == IF cond THEN "T" ELSE "F"
    IN  CASE f_d.symbol = ">"  -> IF v = Null THEN "TypeError" ELSE b(v > f_d.value)
          [] f_d.symbol = "<"  -> IF v = Null THEN "TypeError" ELSE b(v < f_d.value)
          [] f_d.symbol = ">=" -> IF v = Null THEN "TypeError" ELSE b(v >= f_d.value)
          [] f_d.symbol = "<=" -> IF v = Null THEN "TypeError" ELSE b(v <= f_d.value)
          [] f_d.symbol = "!=" -> b(v # f_d.value)
          [] f_d.symbol = "="  -> b(v = f_d.value)

RECURSIVE and_evaluators(_, _)
RECURSIVE or_evaluators(_, _)
RECURSIVE check_node(_, _)

\* mutant: the loop returns after its first evaluator
and_evaluators_first(nodes, x) ==
    IF nodes = <<>> THEN "T" ELSE check_node(Head(nodes), x)

\* mutant: the loop of or_evaluators in the place of the loop of and_evaluators
and_evaluators_any(nodes, x) ==
    IF nodes = <<>> THEN "T"
    ELSE LET r == check_node(Head(nodes), x)
         IN  IF r = "TypeError" THEN r
             ELSE IF r = "T" THEN "T"
             ELSE IF Tail(nodes) = <<>> THEN "F"
             ELSE and_evaluators(Tail(nodes), x)

\* mutant: a child that raises TypeError counts as false
or_evaluators_swallow(nodes, x) ==
    IF nodes = <<>> THEN "F"
    ELSE LET r == check_node(Head(nodes), x)
         IN  IF r = "T" THEN "T" ELSE or_evaluators(Tail(nodes), x)

\* _make_and_evaluator: and_evaluators(x) over the evaluators of the nodes
and_evaluators(nodes, x) ==
    IF nodes = <<>> THEN "T"
    ELSE LET r == check_node(Head(nodes), x)
         IN  IF r = "TypeError" THEN r
             ELSE IF r = "F" THEN "F"
             ELSE and_evaluators(Tail(nodes), x)

\* _make_or_evaluator: or_evaluators(x) over the evaluators of the nodes
or_evaluators(nodes, x) ==
    IF nodes = <<>> THEN "F"
    ELSE LET r == check_node(Head(nodes), x)
         IN  IF r = "TypeError" THEN r
             ELSE IF r = "T" THEN "T"
             ELSE or_evaluators(Tail(nodes), x)

\* the evaluator _check_node makes for node f_n, applied to record x
check_node(f_n, x) ==
    IF f_n.type = "ConjunctionNode" THEN and_evaluators(f_n.children, x)
    ELSE IF f_n.type = "DisjunctionNode" THEN or_evaluators(f_n.children, x)
    ELSE evaluator(node_to_dict(f_n), x)

\* the try/except of __iter__ around post_evaluator(result): yield or skip
yields(post_evals, result) ==
    LET r == and_evaluators(post_evals, result)
    IN  IF r = "TypeError" THEN FALSE ELSE r = "T"

----------------------------------------------------------------------------
(* The backend: the datastore and the result stream of a query *)

Datastore ==
    << [department |-> 1, salary |-> 60000, age |-> 25],
       [department |-> 1, salary |-> 40000, age |-> Null],
       [department |-> 1, salary |-> 70000, age |-> 40],
       [department |-> 2, salary |-> 80000, age |-> Null],
       [department |-> 1, salary |-> 55000, age |-> 29] >>

\* for result in self.query: the records matching every attached filter
QueryResults(q) ==
    SelectSeq(Datastore, LAMBDA r : \A k \in DOMAIN q : check_node(q[k], r) = "T")

----------------------------------------------------------------------------
(* __iter__: a generator *)

NoIter == [pc |-> "none", post_evals |-> <<>>, results |-> <<>>, pos |-> 0, out |-> <<>>]

\* calling __iter__ makes a generator whose body has not started
iter_call == [NoIter EXCEPT !.pc = "created"]

RECURSIVE advance(_)

\* mutant: no try/except, a TypeError ends the generator
advance_abort(it) ==
    IF it.pos = Len(it.results) THEN [it EXCEPT !.pc = "done"]
    ELSE LET result == it.results[it.pos + 1]
         IN  IF and_evaluators(it.post_evals, result) = "TypeError"
             THEN [it EXCEPT !.pc = "done"]
             ELSE IF yields(it.post_evals, result)
             THEN [it EXCEPT !.pc = "running", !.pos = it.pos + 1,
                             !.out = Append(it.out, result)]
             ELSE advance([it EXCEPT !.pos = it.pos + 1])

\* the for loop from the record after it.pos to the next yield or to the end
advance(it) ==
    IF it.pos = Len(it.results) THEN [it EXCEPT !.pc = "done"]
    ELSE LET result == it.results[it.pos + 1]
         IN  IF yields(it.post_evals, result)
             THEN [it EXCEPT !.pc = "running", !.pos = it.pos + 1,
                             !.out = Append(it.out, result)]
             ELSE advance([it EXCEPT !.pos = it.pos + 1])

\* the first next(): line 247 compiles the post filters, line 248 runs the query
start(it, s) ==
    [it EXCEPT !.post_evals = s.post_inq_filters, !.results = QueryResults(s.query)]

\* mutant: every next() compiles the post filters again
generator_next_recompile(it, s) ==
    advance([it EXCEPT !.post_evals = s.post_inq_filters,
                       !.results = IF it.pc = "created" THEN QueryResults(s.query)
                                   ELSE it.results])

\* next(generator)
generator_next(it, s) ==
    IF it.pc = "created" THEN advance(start(it, s)) ELSE advance(it)

----------------------------------------------------------------------------
(* Inputs *)

deptEq   == FilterNode("department", "=", 1)
salaryGt == FilterNode("salary", ">", 50000)
ageLt    == FilterNode("age", "<", 30)
salaryOrAge == DisjunctionNode(<<FilterNode("salary", ">", 60000), ageLt>>)

\* the filters of the pre-built query handed to __init__: inequalities on at
\* most one property, as the constructor requires
BaseQueries ==
    { <<>>, <<deptEq>>, <<FilterNode("salary", ">=", 40000)>>,
      <<deptEq, FilterNode("age", "!=", 40)>> }

\* arguments of filter() in the session specification
FilterArgs ==
    { salaryGt, ageLt, deptEq, salaryOrAge,
      ConjunctionNode(<<deptEq, FilterNode("age", "=", 25)>>),
      ConjunctionNode(<<deptEq, DisjunctionNode(<<FilterNode("age", ">=", 30)>>)>>),
      NonNode }

ArgLists == UNION { [1..n -> FilterArgs] : n \in 0..MaxArgs }

\* arguments of filter() while generators run
IterArgs ==
    { salaryGt, ageLt, salaryOrAge, FilterNode("age", "!=", 25),
      ConjunctionNode(<<ageLt, FilterNode("salary", "<=", 60000)>>) }

Iters == {"g1", "g2"}

RECURSIVE TreesOfSize(_, _)
RECURSIVE ForestsOfSize(_, _)

\* the sequences of trees over the leaves with n nodes in all
ForestsOfSize(leaves, n) ==
    IF n = 0 THEN { <<>> }
    ELSE UNION { { <<t>> \o f : t \in TreesOfSize(leaves, k),
                                f \in ForestsOfSize(leaves, n - k) } : k \in 1..n }

\* the expression trees over the leaves with n nodes
TreesOfSize(leaves, n) ==
    IF n = 1 THEN leaves \cup { ConjunctionNode(<<>>), DisjunctionNode(<<>>) }
    ELSE { ConjunctionNode(f) : f \in ForestsOfSize(leaves, n - 1) }
         \cup { DisjunctionNode(f) : f \in ForestsOfSize(leaves, n - 1) }

Trees(leaves) == UNION { TreesOfSize(leaves, n) : n \in 1..MaxNodes }

\* leaves of the trees handed to filter(): one equality and one inequality
\* on each of two properties
RouteLeaves ==
    { FilterNode("salary", "=", 60000), salaryGt, FilterNode("age", "=", 25), ageLt }

\* leaves of the trees handed to the evaluator: every operator
EvalLeaves ==
    { FilterNode("age", "<", 30), FilterNode("age", ">=", 30),
      FilterNode("age", "!=", 25), FilterNode("salary", ">", 50000),
      FilterNode("salary", "<=", 50000), FilterNode("salary", "=", 60000) }

EvalRecords ==
    { [department |-> 1, salary |-> s, age |-> a] :
        s \in {Null, 40000, 60000}, a \in {Null, 25, 40} }

NoJob == [pc |-> "none", node |-> NonNode, rec |-> Datastore[1],
          result |-> "none", yielded |-> FALSE]

----------------------------------------------------------------------------
(* __init__ *)

\* the session after MultiPropInequality(query) for a query with these filters
InitSession(filters) ==
    /\ query = filters
    /\ first_inequality = get_first_inequality(filters)
    /\ post_inq_filters = <<>>
    /\ call = [args |-> <<>>, raised |-> FALSE, pushed |-> <<>>]
    /\ submitted = 0
    /\ iters = [i \in Iters |-> NoIter]

Init ==
    /\ \E filters \in BaseQueries : InitSession(filters)
    /\ job = NoJob

----------------------------------------------------------------------------
(* Actions *)

\* session.filter(*args), returning or raising TypeError
Filter(args) ==
    /\ submitted + Len(args) <= MaxSubmitted
    /\ LET s == filter(Session, args)
       IN  /\ query' = s.query
           /\ first_inequality' = s.first_inequality
           /\ post_inq_filters' = s.post_inq_filters
           /\ call' = [args |-> args, raised |-> s.raised, pushed |-> s.pushed]
    /\ submitted' = submitted + Len(args)
    /\ UNCHANGED <<iters, job>>

\* iter(session)
Iter(i) ==
    /\ iters[i].pc = "none"
    /\ iters' = [iters EXCEPT ![i] = iter_call]
    /\ UNCHANGED <<query, first_inequality, post_inq_filters, call, submitted, job>>

\* next(generator) on a generator that is not exhausted
GeneratorNext(i) ==
    /\ iters[i].pc \in {"created", "running"}
    /\ iters' = [iters EXCEPT ![i] = generator_next(iters[i], Session)]
    /\ UNCHANGED <<query, first_inequality, post_inq_filters, call, submitted, job>>

\* session.filter(job.node), the argument drawn beforehand
FilterJob ==
    /\ job.pc = "ready"
    /\ LET s == filter(Session, <<job.node>>)
       IN  /\ query' = s.query
           /\ first_inequality' = s.first_inequality
           /\ post_inq_filters' = s.post_inq_filters
           /\ call' = [args |-> <<job.node>>, raised |-> s.raised, pushed |-> s.pushed]
           /\ job' = [job EXCEPT !.pc = "done",
                        !.result = IF s.pushed[1] THEN "deferred" ELSE "accepted"]
    /\ submitted' = submitted + 1
    /\ UNCHANGED iters

\* the evaluator of job.node applied to job.rec, under the try of __iter__
Evaluate ==
    /\ job.pc = "ready"
    /\ job' = [job EXCEPT !.pc = "done",
                 !.result = and_evaluators(<<job.node>>, job.rec),
                 !.yielded = yields(<<job.node>>, job.rec)]
    /\ UNCHANGED <<query, first_inequality, post_inq_filters, call, submitted, iters>>

----------------------------------------------------------------------------
(* Specifications *)

\* a session and its filter() calls
Next == \E args \in ArgLists : Filter(args)

Spec == Init /\ [][Next]_vars

\* a session, its filter() calls and its generators
NextIter ==
    \/ \E e \in IterArgs : Filter(<<e>>)
    \/ \E i \in Iters : Iter(i)
    \/ \E i \in Iters : GeneratorNext(i)

SpecIter == Init /\ [][NextIter]_vars

\* one filter() call on any tree, after at most one earlier call
InitSubmit ==
    /\ \E filters \in BaseQueries : InitSession(filters)
    /\ \E t \in Trees(RouteLeaves) : job = [NoJob EXCEPT !.pc = "ready", !.node = t]

NextSubmit ==
    \/ \E e \in IterArgs : submitted = 0 /\ job.pc = "ready" /\ Filter(<<e>>)
    \/ FilterJob

SpecSubmit == InitSubmit /\ [][NextSubmit]_vars

\* the evaluator of any tree on any record
InitEval ==
    /\ InitSession(<<>>)
    /\ \E t \in Trees(EvalLeaves), r \in EvalRecords :
          job = [NoJob EXCEPT !.pc = "ready", !.node = t, !.rec = r]

NextEval == Evaluate

SpecEval == InitEval /\ [][NextEval]_vars

----------------------------------------------------------------------------
(* Helpers of the properties *)

RECURSIVE LeafSeq(_)
RECURSIVE LeafSeqEach(_)

\* the comparison leaves of a tree, left to right
LeafSeq(node) ==
    IF node.type = "FilterNode" THEN <<node>> ELSE LeafSeqEach(node.children)

LeafSeqEach(nodes) ==
    IF nodes = <<>> THEN <<>> ELSE LeafSeq(Head(nodes)) \o LeafSeqEach(Tail(nodes))

Range(seq) == { seq[k] : k \in DOMAIN seq }

\* the properties that carry a comparison other than "=" in these nodes
InequalityProps(nodes) ==
    { l.name : l \in { m \in Range(LeafSeqEach(nodes)) : m.symbol # "=" } }

RECURSIVE AndOnly(_)

\* the tree is built from conjunctions and comparisons only
AndOnly(node) ==
    \/ node.type = "FilterNode"
    \/ /\ node.type = "ConjunctionNode"
       /\ \A k \in DOMAIN node.children : AndOnly(node.children[k])

\* a step that is a filter() call with one argument
OneArgCall == submitted' = submitted + 1 /\ Len(call'.args) = 1

----------------------------------------------------------------------------
(* Properties *)

\* C1: the filters attached to the backend query carry inequality
\* comparisons on at most one property, and that property is the one named
\* by first_inequality.
C1_SingleInequalityProperty ==
    /\ Cardinality(InequalityProps(query)) <= 1
    /\ InequalityProps(query) \subseteq {first_inequality.name}

\* a conflicting expression was deferred and an inequality was pushed down
C1_Witness ==
    /\ InequalityProps(query) = {"salary"}
    /\ "age" \in InequalityProps(post_inq_filters)
    /\ Len(query) >= 2

\* C5: once first_inequality is set, its property name never changes.
C5_FirstInequalityStable ==
    [][first_inequality # NoneDict => first_inequality'.name = first_inequality.name]_vars

\* first_inequality was set by a filter() call and a later call met an
\* inequality on another property
C5_Witness ==
    /\ query = <<ageLt>>
    /\ first_inequality.name = "age"
    /\ post_inq_filters = <<salaryGt>>

\* C9: a filter() call that raises TypeError at its first argument that is
\* not a node leaves the session as a call on the arguments before it would,
\* each of them attached to the query or deferred; the arguments from the
\* failing one on have no effect.
C9_FilterNotAtomic ==
    [][submitted' # submitted /\ call'.raised =>
         LET args == call'.args
             k == CHOOSE j \in DOMAIN args :
                     /\ ~IsNode(args[j])
                     /\ \A h \in 1..(j - 1) : IsNode(args[h])
             before == filter(Session, SubSeq(args, 1, k - 1))
         IN  /\ query' = before.query
             /\ post_inq_filters' = before.post_inq_filters
             /\ first_inequality' = before.first_inequality
             /\ Len(query') + Len(post_inq_filters')
                  = Len(query) + Len(post_inq_filters) + (k - 1)
             /\ Len(call'.pushed) = k - 1]_vars

\* filter(age < 30, "str") on a session whose inequality property is salary:
\* the call raised and age < 30 stays deferred
C9_Witness ==
    /\ call.raised
    /\ call.args = <<ageLt, NonNode>>
    /\ first_inequality.name = "salary"
    /\ post_inq_filters = <<ageLt>>

\* C3: when first_inequality is set and the argument of filter() holds,
\* anywhere in its tree, an inequality on another property, the argument is
\* appended to the end of post_inq_filters and is not attached to the query.
C3_ConflictDeferred ==
    [][/\ OneArgCall
       /\ first_inequality # NoneDict
       /\ InequalityProps(call'.args) \ {first_inequality.name} # {}
       => /\ call'.pushed = <<TRUE>>
          /\ post_inq_filters' = Append(post_inq_filters, call'.args[1])
          /\ query' = query]_vars

\* a compound argument whose first inequality is on the chosen property and
\* a later one is not, deferred behind an earlier deferred expression
C3_Witness ==
    /\ job.pc = "done"
    /\ job.result = "deferred"
    /\ job.node.type # "FilterNode"
    /\ Len(post_inq_filters) = 2
    /\ post_inq_filters[2] = job.node
    /\ get_inequalities(job.node)[1].name = first_inequality.name

\* C4: an argument of filter() whose comparisons are all "=" is attached to
\* the query; post_inq_filters and first_inequality are unchanged.
C4_EqualityAccepted ==
    [][/\ OneArgCall
       /\ IsNode(call'.args[1])
       /\ InequalityProps(call'.args) = {}
       => /\ call'.pushed = <<FALSE>>
          /\ query' = Append(query, call'.args[1])
          /\ post_inq_filters' = post_inq_filters
          /\ first_inequality' = first_inequality]_vars

\* a nested all-equality argument over two properties, accepted by a session
\* that had chosen its inequality property and deferred an expression
C4_Witness ==
    /\ job.pc = "done"
    /\ job.result = "accepted"
    /\ { l.name : l \in Range(LeafSeq(job.node)) } = {"salary", "age"}
    /\ \E k \in DOMAIN job.node.children : job.node.children[k].type # "FilterNode"
    /\ first_inequality # NoneDict
    /\ post_inq_filters # <<>>
    /\ query[Len(query)] = job.node

\* every expression of the list evaluates true on the record
AllTrue(exprs, r) == \A k \in DOMAIN exprs : check_node(exprs[k], r) = "T"

\* the records a generator has pulled from the backend so far
Pulled(it) == SubSeq(it.results, 1, it.pos)

Started == { i \in Iters : iters[i].pc \in {"running", "done"} }

\* C2: a generator yields, in backend order and each once, exactly the
\* pulled records on which every expression of its post filters evaluates
\* true; an exhausted generator has pulled the whole result stream.  With
\* base filter department = 1, salary > 50000 accepted and age < 30
\* deferred, the three candidates give the first and the third.
C2_YieldsExactlyMatches ==
    \A i \in Started :
        LET it == iters[i]
        IN  /\ it.out = SelectSeq(Pulled(it), LAMBDA r : AllTrue(it.post_evals, r))
            /\ it.pc = "done" => it.pos = Len(it.results)
            /\ (it.pc = "done" /\ it.post_evals = <<ageLt>>
                  /\ it.results = <<Datastore[1], Datastore[3], Datastore[5]>>)
               => it.out = <<Datastore[1], Datastore[5]>>

\* the scenario: the generator of the session with department = 1 and
\* salary > 50000 at the backend and age < 30 deferred is exhausted
C2_Witness ==
    /\ query = <<deptEq, salaryGt>>
    /\ post_inq_filters = <<ageLt>>
    /\ iters["g1"].pc = "done"
    /\ iters["g1"].post_evals = <<ageLt>>
    /\ iters["g1"].results =
         << [department |-> 1, salary |-> 60000, age |-> 25],
            [department |-> 1, salary |-> 70000, age |-> 40],
            [department |-> 1, salary |-> 55000, age |-> 29] >>
    /\ iters["g1"].out =
         << [department |-> 1, salary |-> 60000, age |-> 25],
            [department |-> 1, salary |-> 55000, age |-> 29] >>

\* C6 as stated: no yielded record holds None for a property that a
\* comparison of the post filters refers to.
C6_NullRecordNeverYielded ==
    \A i \in Started :
        \A r \in Range(iters[i].out) :
            \A l \in Range(LeafSeqEach(iters[i].post_evals)) : r[l.name] # Null

\* C6 amended: a pulled record on which the post filters raise TypeError is
\* not yielded, the records after it are still pulled and evaluated, and
\* those of them that match are yielded.
C6_TypeErrorSkipped ==
    \A i \in Started :
        LET it == iters[i]
        IN  /\ \A k \in 1..it.pos :
                  and_evaluators(it.post_evals, it.results[k]) = "TypeError"
                      => it.results[k] \notin Range(it.out)
            /\ \A k \in 1..it.pos :
                  AllTrue(it.post_evals, it.results[k])
                      => it.results[k] \in Range(it.out)
            /\ it.pc = "done" => it.pos = Len(it.results)
            /\ it.pc = "running" => it.out[Len(it.out)] = it.results[it.pos]

\* an exhausted generator skipped a record with age None and yielded a
\* record that came after it
C6_Witness ==
    \E i \in Iters :
        LET it == iters[i]
        IN  /\ it.pc = "done"
            /\ \E k \in 1..Len(it.results) :
                  /\ it.results[k].age = Null
                  /\ and_evaluators(it.post_evals, it.results[k]) = "TypeError"
                  /\ \E h \in (k + 1)..Len(it.results) : it.results[h] \in Range(it.out)

\* C8: the first next() of a generator takes the post filters and the query
\* of the session as they are then; later next() calls keep both, whatever
\* filter() calls came between.
C8_FixedAtFirstPull ==
    [][\A i \in Iters :
         /\ (iters[i].pc = "created" /\ iters'[i].pc # "created")
               => /\ iters'[i].post_evals = post_inq_filters
                  /\ iters'[i].results = QueryResults(query)
         /\ iters[i].pc \in {"running", "done"}
               => /\ iters'[i].post_evals = iters[i].post_evals
                  /\ iters'[i].results = iters[i].results
                  /\ SubSeq(iters'[i].out, 1, Len(iters[i].out)) = iters[i].out
                  /\ iters'[i].out =
                        SelectSeq(Pulled(iters'[i]),
                                  LAMBDA r : AllTrue(iters[i].post_evals, r))]_vars

\* g1 is in the middle of the unfiltered stream it started on although
\* filter() calls came after its first pull; g2, started after the calls,
\* ran on the new query and the new post filters
C8_Witness ==
    /\ iters["g1"].pc = "running"
    /\ iters["g1"].post_evals = <<>>
    /\ iters["g1"].results = Datastore
    /\ iters["g1"].pos < Len(iters["g1"].results)
    /\ post_inq_filters # <<>>
    /\ query # <<>>
    /\ iters["g2"].pc = "done"
    /\ iters["g2"].post_evals = post_inq_filters
    /\ iters["g2"].results = QueryResults(query)
    /\ iters["g2"].out # iters["g2"].results

\* C7: on a tree of conjunctions and comparisons the evaluator returns true
\* exactly when every comparison of the tree is true on the record, and
\* when no comparison raises it returns their conjunction.
C7_AndIsConjunctionOfLeaves ==
    (job.pc = "done" /\ AndOnly(job.node)) =>
        LET leaf == LeafSeq(job.node)
            each == [k \in DOMAIN leaf |-> evaluator(node_to_dict(leaf[k]), job.rec)]
        IN  /\ job.result = "T" <=> \A k \in DOMAIN leaf : each[k] = "T"
            /\ job.yielded <=> \A k \in DOMAIN leaf : each[k] = "T"
            /\ (\A k \in DOMAIN leaf : each[k] # "TypeError")
                  => job.result = IF \A k \in DOMAIN leaf : each[k] = "T"
                                  THEN "T" ELSE "F"

\* a nested conjunction stopped at a false comparison that a true one follows
C7_Witness ==
    /\ job.pc = "done"
    /\ AndOnly(job.node)
    /\ job.node.type = "ConjunctionNode"
    /\ \E k \in DOMAIN job.node.children : job.node.children[k].type = "ConjunctionNode"
    /\ job.result = "F"
    /\ LET leaf == LeafSeq(job.node)
       IN  /\ Len(leaf) >= 2
           /\ evaluator(node_to_dict(leaf[1]), job.rec) = "F"
           /\ evaluator(node_to_dict(leaf[2]), job.rec) = "T"

\* the children of a disjunction that decide: true, or raising on None
Decisive(node, r) ==
    { k \in DOMAIN node.children : check_node(node.children[k], r) \in {"T", "TypeError"} }

Min(S) == CHOOSE k \in S : \A h \in S : k <= h

Reverse(seq) == [k \in DOMAIN seq |-> seq[Len(seq) + 1 - k]]

\* C10: a disjunction is decided by its first child that is true or raises
\* on None: true first, the record matches; a raise first, the record is
\* skipped; neither, the record does not match.
C10_OrDecidedByFirstTrueOrNull ==
    (job.pc = "done" /\ job.node.type = "DisjunctionNode") =>
        IF Decisive(job.node, job.rec) = {}
        THEN job.result = "F" /\ ~job.yielded
        ELSE LET first == check_node(job.node.children[Min(Decisive(job.node, job.rec))],
                                     job.rec)
             IN  /\ job.result = first
                 /\ job.yielded <=> first = "T"

\* a record skipped because a child met None before a later child that is
\* true; with the children in reverse order the record matches
C10_Witness ==
    /\ job.pc = "done"
    /\ job.node.type = "DisjunctionNode"
    /\ job.result = "TypeError"
    /\ ~job.yielded
    /\ \E k \in DOMAIN job.node.children : check_node(job.node.children[k], job.rec) = "T"
    /\ yields(<<DisjunctionNode(Reverse(job.node.children))>>, job.rec)

====
